---- MODULE Spec2Model ----
(***************************************************************************)
(* Two parts of the repository are modelled here: the RISC-V VTYPE codec   *)
(* and, further down, the x86_64 floating point environment of libc's      *)
(* fputil.                                                                 *)
(*                                                                         *)
(* RISC-V VTYPE codec of llvm/lib/TargetParser/RISCVTargetParser.cpp       *)
(* (namespace RISCVVType).  The codec is stateless: each function is an    *)
(* operator computed as the code computes it on 32-bit unsigned values,    *)
(* and the state machine records one call at a time: the function called,  *)
(* its arguments, how the call ended and what it returned or printed.      *)
(***************************************************************************)
EXTENDS Integers, Naturals, Sequences, FiniteSets, TLC

VARIABLES fn, args, outcome, ret, flag, OS

(***************************************************************************)
(* x86_64 floating point environment (libc fputil FEnvImpl.h): the build's *)
(* <fenv.h> (hdr), the x87 unit and MXCSR (fpu), the caller's fenv_t and   *)
(* what the caller observed when it was filled (env), the last call made   *)
(* (call), the progress of a raise_except call (raising) and the number of *)
(* calls made (ncalls).                                                    *)
(***************************************************************************)
VARIABLES hdr, fpu, env, call, raising, ncalls

codecVars == <<fn, args, outcome, ret, flag, OS>>

fenvVars == <<hdr, fpu, env, call, raising, ncalls>>

vars == <<fn, args, outcome, ret, flag, OS, hdr, fpu, env, call, raising, ncalls>>

(***************************************************************************)
(* Bounds of the model: the largest SEW / EEW / Widen argument and the     *)
(* largest VTYPE word handed to the functions.                             *)
(***************************************************************************)
MaxWidth == 64
MaxWiden == 5
MaxVType == 255

(***************************************************************************)
(* unsigned: the bit operators of C++.  Every argument is at most          *)
(* MaxWidth, MaxWiden or MaxVType, so the largest intermediate value of    *)
(* any function below is MaxWidth * 8 or 7 << 9: no operation comes near   *)
(* 2^32 and none wraps.                                                    *)
(***************************************************************************)
Shl(x, k) == x * 2^k

Shr(x, k) == x \div 2^k

RECURSIVE BitAnd(_, _)
BitAnd(a, b) ==
  IF a = 0 \/ b = 0 THEN 0
  ELSE (IF a % 2 = 1 /\ b % 2 = 1 THEN 1 ELSE 0) + 2 * BitAnd(a \div 2, b \div 2)

RECURSIVE BitOr(_, _)
BitOr(a, b) ==
  IF a = 0 THEN b
  ELSE IF b = 0 THEN a
  ELSE (IF a % 2 = 1 \/ b % 2 = 1 THEN 1 ELSE 0) + 2 * BitOr(a \div 2, b \div 2)

BoolToUnsigned(b) == IF b THEN 1 ELSE 0

(***************************************************************************)
(* llvm/Support/MathExtras.h                                               *)
(***************************************************************************)
isPowerOf2_32(Value) == Value # 0 /\ BitAnd(Value, Value - 1) = 0

RECURSIVE FloorLog2(_)
FloorLog2(Value) == IF Value <= 1 THEN 0 ELSE 1 + FloorLog2(Value \div 2)

\* Log2_32(0) is 31 - countl_zero(0) = -1; every use below is behind an
\* assert that excludes 0.
Log2_32(Value) == IF Value = 0 THEN -1 ELSE FloorLog2(Value)

(***************************************************************************)
(* llvm/TargetParser/RISCVTargetParser.h: enum VLMUL and inline helpers.   *)
(***************************************************************************)
LMUL_1 == 0
LMUL_2 == 1
LMUL_4 == 2
LMUL_8 == 3
LMUL_RESERVED == 4
LMUL_F8 == 5
LMUL_F4 == 6
LMUL_F2 == 7

VLMULCodes == LMUL_1 .. LMUL_F2

isValidSEW(SEW) == isPowerOf2_32(SEW) /\ SEW >= 8 /\ SEW <= 64

encodeSEW(SEW) == Log2_32(SEW) - 3

isValidLMUL(LMUL, Fractional) ==
  isPowerOf2_32(LMUL) /\ LMUL <= 8 /\ (~Fractional \/ LMUL # 1)

encodeLMUL(LMUL, Fractional) ==
  IF Fractional THEN 8 - Log2_32(LMUL) ELSE Log2_32(LMUL)

getVLMUL(VType) == BitAnd(VType, 7)

decodeVSEW(VSEW) == Shl(1, VSEW + 3)

getSEW(VType) == decodeVSEW(BitAnd(Shr(VType, 3), 7))

isTailAgnostic(VType) == BitAnd(VType, 64) # 0

isMaskAgnostic(VType) == BitAnd(VType, 128) # 0

(***************************************************************************)
(* How a call ends: it returns, an assert fails, llvm_unreachable is hit,  *)
(* or the processor traps.  value/flag hold what was returned (flag is the *)
(* bool of a pair, or has_value of an optional); os is the text written.   *)
(* assert is modelled as it is written (a build with assertions enabled).  *)
(***************************************************************************)
Returned(v, f) == [outcome |-> "returned", value |-> v, flag |-> f, os |-> ""]

Failed(how) == [outcome |-> how, value |-> 0, flag |-> FALSE, os |-> ""]

(***************************************************************************)
(* encodeVTYPE                                                             *)
(***************************************************************************)
\* Mutants of encodeVTYPE: the SEW field holds SEW/8 instead of its log2;
\* the tail-agnostic flag lands on bit 5; the two fields are swapped.
encodeVTYPE_RawSEW(VLMul, SEW, TailAgnostic, MaskAgnostic) ==
  IF ~isValidSEW(SEW) THEN Failed("assert")
  ELSE
    LET VSEWBits  == SEW \div 8
        VTypeI0   == BitOr(Shl(VSEWBits, 3), BitAnd(VLMul, 7))
        VTypeI1   == IF TailAgnostic THEN BitOr(VTypeI0, 64) ELSE VTypeI0
        VTypeI2   == IF MaskAgnostic THEN BitOr(VTypeI1, 128) ELSE VTypeI1
    IN  Returned(VTypeI2, FALSE)

encodeVTYPE_TailBit5(VLMul, SEW, TailAgnostic, MaskAgnostic) ==
  IF ~isValidSEW(SEW) THEN Failed("assert")
  ELSE
    LET VSEWBits  == encodeSEW(SEW)
        VTypeI0   == BitOr(Shl(VSEWBits, 3), BitAnd(VLMul, 7))
        VTypeI1   == IF TailAgnostic THEN BitOr(VTypeI0, 32) ELSE VTypeI0
        VTypeI2   == IF MaskAgnostic THEN BitOr(VTypeI1, 128) ELSE VTypeI1
    IN  Returned(VTypeI2, FALSE)

encodeVTYPE_FieldsSwapped(VLMul, SEW, TailAgnostic, MaskAgnostic) ==
  IF ~isValidSEW(SEW) THEN Failed("assert")
  ELSE
    LET VSEWBits  == encodeSEW(SEW)
        VTypeI0   == BitOr(Shl(BitAnd(VLMul, 7), 3), VSEWBits)
        VTypeI1   == IF TailAgnostic THEN BitOr(VTypeI0, 64) ELSE VTypeI0
        VTypeI2   == IF MaskAgnostic THEN BitOr(VTypeI1, 128) ELSE VTypeI1
    IN  Returned(VTypeI2, FALSE)

\* Mutant of encodeVTYPE: the assert is the one of getSEWLMULRatio, SEW >= 8.
encodeVTYPE_AssertSEWAtLeast8(VLMul, SEW, TailAgnostic, MaskAgnostic) ==
  IF ~(SEW >= 8) THEN Failed("assert")
  ELSE
    LET VSEWBits  == encodeSEW(SEW)
        VTypeI0   == BitOr(Shl(VSEWBits, 3), BitAnd(VLMul, 7))
        VTypeI1   == IF TailAgnostic THEN BitOr(VTypeI0, 64) ELSE VTypeI0
        VTypeI2   == IF MaskAgnostic THEN BitOr(VTypeI1, 128) ELSE VTypeI1
    IN  Returned(VTypeI2, FALSE)

encodeVTYPE(VLMul, SEW, TailAgnostic, MaskAgnostic) ==
  IF ~isValidSEW(SEW) THEN Failed("assert")
  ELSE
    LET VLMulBits == VLMul
        VSEWBits  == encodeSEW(SEW)
        VTypeI0   == BitOr(Shl(VSEWBits, 3), BitAnd(VLMulBits, 7))
        VTypeI1   == IF TailAgnostic THEN BitOr(VTypeI0, 64) ELSE VTypeI0
        VTypeI2   == IF MaskAgnostic THEN BitOr(VTypeI1, 128) ELSE VTypeI1
    IN  Returned(VTypeI2, FALSE)

(***************************************************************************)
(* encodeXSfmmVType                                                        *)
(***************************************************************************)
\* Mutant of encodeXSfmmVType: the widen field holds log2(Widen), without + 1.
encodeXSfmmVType_WidenLog2(SEW, Widen, AltFmt) ==
  IF ~isValidSEW(SEW) THEN Failed("assert")
  ELSE IF ~(Widen = 1 \/ Widen = 2 \/ Widen = 4) THEN Failed("assert")
  ELSE
    LET VSEWBits == encodeSEW(SEW)
        TWiden   == Log2_32(Widen)
        VTypeI   == BitOr(BitOr(Shl(VSEWBits, 3), Shl(BoolToUnsigned(AltFmt), 8)),
                          Shl(TWiden, 9))
    IN  Returned(VTypeI, FALSE)

encodeXSfmmVType(SEW, Widen, AltFmt) ==
  IF ~isValidSEW(SEW) THEN Failed("assert")
  ELSE IF ~(Widen = 1 \/ Widen = 2 \/ Widen = 4) THEN Failed("assert")
  ELSE
    LET VSEWBits == encodeSEW(SEW)
        TWiden   == Log2_32(Widen) + 1
        VTypeI   == BitOr(BitOr(Shl(VSEWBits, 3), Shl(BoolToUnsigned(AltFmt), 8)),
                          Shl(TWiden, 9))
    IN  Returned(VTypeI, FALSE)

(***************************************************************************)
(* decodeVLMUL: the pair (multiplier or denominator, fractional).          *)
(***************************************************************************)
\* Mutants of decodeVLMUL: the fractional denominator is 1 << (7 - code);
\* the reserved code falls into the whole-multiple case.
decodeVLMUL_Shift7(VLMul) ==
  IF VLMul \in {LMUL_1, LMUL_2, LMUL_4, LMUL_8}
    THEN Returned(Shl(1, VLMul), FALSE)
  ELSE IF VLMul \in {LMUL_F2, LMUL_F4, LMUL_F8}
    THEN Returned(Shl(1, 7 - VLMul), TRUE)
  ELSE Failed("unreachable")

decodeVLMUL_ReservedAsWhole(VLMul) ==
  IF VLMul \in {LMUL_F2, LMUL_F4, LMUL_F8}
    THEN Returned(Shl(1, 8 - VLMul), TRUE)
  ELSE Returned(Shl(1, VLMul), FALSE)

\* Mutant of decodeVLMUL: the fractional codes count up, 1 << (code - 4).
decodeVLMUL_FractionsAscending(VLMul) ==
  IF VLMul \in {LMUL_1, LMUL_2, LMUL_4, LMUL_8}
    THEN Returned(Shl(1, VLMul), FALSE)
  ELSE IF VLMul \in {LMUL_F2, LMUL_F4, LMUL_F8}
    THEN Returned(Shl(1, VLMul - 4), TRUE)
  ELSE Failed("unreachable")

decodeVLMUL(VLMul) ==
  IF VLMul \in {LMUL_1, LMUL_2, LMUL_4, LMUL_8}
    THEN Returned(Shl(1, VLMul), FALSE)
  ELSE IF VLMul \in {LMUL_F2, LMUL_F4, LMUL_F8}
    THEN Returned(Shl(1, 8 - VLMul), TRUE)
  ELSE Failed("unreachable")

(***************************************************************************)
(* raw_ostream << unsigned writes the decimal digits; << "..." the text.   *)
(***************************************************************************)
Digit(d) == <<"0", "1", "2", "3", "4", "5", "6", "7", "8", "9">>[d + 1]

RECURSIVE write_unsigned(_)
write_unsigned(N) ==
  IF N < 10 THEN Digit(N) ELSE write_unsigned(N \div 10) \o Digit(N % 10)

(***************************************************************************)
(* printVType: os is what has been written to OS when the call ends.       *)
(***************************************************************************)
\* Mutant of printVType: the two policy flags are read from each other's bit.
printVType_PolicySwapped(VType) ==
  LET Sew == getSEW(VType)
      os1 == "e" \o write_unsigned(Sew)
      D   == decodeVLMUL(getVLMUL(VType))
  IN  IF D.outcome # "returned"
        THEN [outcome |-> D.outcome, value |-> 0, flag |-> FALSE, os |-> os1]
      ELSE
        LET os2 == os1 \o (IF D.flag THEN ", mf" ELSE ", m")
            os3 == os2 \o write_unsigned(D.value)
            os4 == os3 \o (IF isMaskAgnostic(VType) THEN ", ta" ELSE ", tu")
            os5 == os4 \o (IF isTailAgnostic(VType) THEN ", ma" ELSE ", mu")
        IN  [outcome |-> "returned", value |-> 0, flag |-> FALSE, os |-> os5]

printVType(VType) ==
  LET Sew == getSEW(VType)
      os1 == "e" \o write_unsigned(Sew)
      D   == decodeVLMUL(getVLMUL(VType))
  IN  IF D.outcome # "returned"
        THEN [outcome |-> D.outcome, value |-> 0, flag |-> FALSE, os |-> os1]
      ELSE
        LET LMul       == D.value
            Fractional == D.flag
            os2 == os1 \o (IF Fractional THEN ", mf" ELSE ", m")
            os3 == os2 \o write_unsigned(LMul)
            os4 == os3 \o (IF isTailAgnostic(VType) THEN ", ta" ELSE ", tu")
            os5 == os4 \o (IF isMaskAgnostic(VType) THEN ", ma" ELSE ", mu")
        IN  [outcome |-> "returned", value |-> 0, flag |-> FALSE, os |-> os5]

(***************************************************************************)
(* getSEWLMULRatio                                                         *)
(***************************************************************************)
\* Mutant of getSEWLMULRatio: a fractional LMUL is scaled like a whole one.
getSEWLMULRatio_NoFraction(SEW, VLMul) ==
  LET D == decodeVLMUL(VLMul)
  IN  IF D.outcome # "returned" THEN Failed(D.outcome)
      ELSE
        LET LMul == D.value * 8
        IN  IF ~(SEW >= 8) THEN Failed("assert")
            ELSE Returned((SEW * 8) \div LMul, FALSE)

getSEWLMULRatio(SEW, VLMul) ==
  LET D == decodeVLMUL(VLMul)
  IN  IF D.outcome # "returned" THEN Failed(D.outcome)
      ELSE
        LET LMul == IF D.flag THEN 8 \div D.value ELSE D.value * 8
        IN  IF ~(SEW >= 8) THEN Failed("assert")
            ELSE Returned((SEW * 8) \div LMul, FALSE)

(***************************************************************************)
(* Unsigned division.  Dividing by zero is undefined behaviour; what a     *)
(* build does there is what its target's divide instruction does: x86      *)
(* raises #DE (the process dies of SIGFPE), AArch64 yields 0 and RISC-V    *)
(* yields all ones.  All ones (0xFFFFFFFF) is written as the largest       *)
(* integer TLC holds, 0x7FFFFFFF: like it, it is above 8 and no power of   *)
(* two, which is all the code asks of the value.                           *)
(***************************************************************************)
AllOnes == 2^30 + (2^30 - 1)

UndefinedQuotients == {0, AllOnes}

UDiv(a, b) ==
  IF b = 0
    THEN {[trap |-> TRUE, q |-> 0]} \cup {[trap |-> FALSE, q |-> v] : v \in UndefinedQuotients}
    ELSE {[trap |-> FALSE, q |-> a \div b]}

(***************************************************************************)
(* Mutants of getSameRatioLMUL: the fixed-point EMUL is computed from SEW  *)
(* instead of EEW; the fractional test is <= 8 instead of < 8.             *)
(***************************************************************************)
getSameRatioLMUL_FromSEW(SEW, VLMul, EEW) ==
  LET R == getSEWLMULRatio(SEW, VLMul)
  IN  IF R.outcome # "returned" THEN {Failed(R.outcome)}
      ELSE
        LET EMULFixedPoint == (SEW * 8) \div R.value
            Fractional     == EMULFixedPoint < 8
            EMUL == IF Fractional THEN 8 \div EMULFixedPoint ELSE EMULFixedPoint \div 8
        IN  IF ~isValidLMUL(EMUL, Fractional)
              THEN {Returned(0, FALSE)}
              ELSE {Returned(encodeLMUL(EMUL, Fractional), TRUE)}

getSameRatioLMUL_FractionalLE8(SEW, VLMul, EEW) ==
  LET R == getSEWLMULRatio(SEW, VLMul)
  IN  IF R.outcome # "returned" THEN {Failed(R.outcome)}
      ELSE
        LET EMULFixedPoint == (EEW * 8) \div R.value
            Fractional     == EMULFixedPoint <= 8
        IN  IF EMULFixedPoint = 0 THEN {Failed("trap")}
            ELSE
              LET EMUL == IF Fractional THEN 8 \div EMULFixedPoint
                                        ELSE EMULFixedPoint \div 8
              IN  IF ~isValidLMUL(EMUL, Fractional)
                    THEN {Returned(0, FALSE)}
                    ELSE {Returned(encodeLMUL(EMUL, Fractional), TRUE)}

(***************************************************************************)
(* getSameRatioLMUL: the set of ways the call can end.  It is a single     *)
(* result unless a division by zero is executed.  flag is has_value().     *)
(***************************************************************************)
Nullopt == Returned(0, FALSE)

getSameRatioLMUL(SEW, VLMul, EEW) ==
  LET R == getSEWLMULRatio(SEW, VLMul)
  IN  IF R.outcome # "returned" THEN {Failed(R.outcome)}
      ELSE
        LET Ratio == R.value
        IN  UNION {
              IF d1.trap THEN {Failed("trap")}
              ELSE
                LET EMULFixedPoint == d1.q
                    Fractional     == EMULFixedPoint < 8
                IN  UNION {
                      IF d2.trap THEN {Failed("trap")}
                      ELSE
                        LET EMUL == d2.q
                        IN  IF ~isValidLMUL(EMUL, Fractional)
                              THEN {Nullopt}
                              ELSE {Returned(encodeLMUL(EMUL, Fractional), TRUE)}
                      : d2 \in (IF Fractional THEN UDiv(8, EMULFixedPoint)
                                               ELSE UDiv(EMULFixedPoint, 8)) }
              : d1 \in UDiv(EEW * 8, Ratio) }

(***************************************************************************)
(* x86_64 floating point environment.                                      *)
(*                                                                         *)
(* <fenv.h>: the FE_* macros come from the libc the library is built       *)
(* against, so the code may not assume they are the hardware encodings.    *)
(* Two headers are modelled: "llvm-libc", whose exception macros are not   *)
(* in hardware order and which has no __FE_DENORM, and "glibc", whose      *)
(* macros are the hardware bits and which defines __FE_DENORM.  A macro    *)
(* that is not defined is 0 here and its #ifdef lines are left out.        *)
(***************************************************************************)
Headers == {"llvm-libc", "glibc"}

FE_DENORM_defined == hdr = "glibc"

FE_INVALID == IF hdr = "glibc" THEN 1 ELSE 4

FE_DENORM == IF hdr = "glibc" THEN 2 ELSE 0

FE_DIVBYZERO == IF hdr = "glibc" THEN 4 ELSE 1

FE_OVERFLOW == IF hdr = "glibc" THEN 8 ELSE 8

FE_UNDERFLOW == IF hdr = "glibc" THEN 16 ELSE 16

FE_INEXACT == IF hdr = "glibc" THEN 32 ELSE 2

FE_ALL_EXCEPT ==
  FE_INVALID + FE_DENORM + FE_DIVBYZERO + FE_OVERFLOW + FE_UNDERFLOW + FE_INEXACT

FE_TONEAREST == 0

FE_DOWNWARD == 1024

FE_UPWARD == 2048

FE_TOWARDZERO == 3072

(***************************************************************************)
(* internal:: constants                                                    *)
(***************************************************************************)
TO_NEAREST == 0

DOWNWARD == 1

UPWARD == 2

TOWARD_ZERO == 3

X87_ROUNDING_CONTROL_BIT_POSITION == 10

MXCSR_ROUNDING_CONTROL_BIT_POSITION == 13

INVALID_F == 1

DENORMAL_F == 2

DIV_BY_ZERO_F == 4

OVERFLOW_F == 8

UNDERFLOW_F == 16

INEXACT_F == 32

MXCSR_EXCEPTION_CONTOL_BIT_POISTION == 7

(***************************************************************************)
(* uint16_t / uint32_t helpers.  x & ~m is computed as x minus the bits x  *)
(* shares with m; MXCSR bits 31:16 are reserved and read as zero, so every *)
(* 32-bit value here is below 2^16.                                        *)
(***************************************************************************)
Uint16(x) == x % 2^16

BitAndNot(x, m) == x - BitAnd(x, m)

Test(x, m) == BitAnd(x, m) # 0

(***************************************************************************)
(* get_status_value_for_except / exception_status_to_macro                 *)
(***************************************************************************)
get_status_value_for_except(excepts) ==
  BitOr(IF Test(excepts, FE_INVALID) THEN INVALID_F ELSE 0,
  BitOr(IF FE_DENORM_defined /\ Test(excepts, FE_DENORM) THEN DENORMAL_F ELSE 0,
  BitOr(IF Test(excepts, FE_DIVBYZERO) THEN DIV_BY_ZERO_F ELSE 0,
  BitOr(IF Test(excepts, FE_OVERFLOW) THEN OVERFLOW_F ELSE 0,
  BitOr(IF Test(excepts, FE_UNDERFLOW) THEN UNDERFLOW_F ELSE 0,
        IF Test(excepts, FE_INEXACT) THEN INEXACT_F ELSE 0)))))

exception_status_to_macro(status) ==
  BitOr(IF Test(status, INVALID_F) THEN FE_INVALID ELSE 0,
  BitOr(IF FE_DENORM_defined /\ Test(status, DENORMAL_F) THEN FE_DENORM ELSE 0,
  BitOr(IF Test(status, DIV_BY_ZERO_F) THEN FE_DIVBYZERO ELSE 0,
  BitOr(IF Test(status, OVERFLOW_F) THEN FE_OVERFLOW ELSE 0,
  BitOr(IF Test(status, UNDERFLOW_F) THEN FE_UNDERFLOW ELSE 0,
        IF Test(status, INEXACT_F) THEN FE_INEXACT ELSE 0)))))

(***************************************************************************)
(* The registers and the instructions of the inline assembly.  R is the    *)
(* register state [control_word, status_word, rest, mxcsr]; rest stands    *)
(* for the five words _[5] of the x87 environment after the status word    *)
(* (0: all zero).  The error-summary and busy bits of the status word,     *)
(* which the unit derives from the flags and masks, are not tracked.       *)
(* fnstenv stores the environment and then masks all x87 exceptions        *)
(* (Intel SDM, FSTENV/FNSTENV).                                            *)
(***************************************************************************)
X87StateDescriptor(R) ==
  [control_word |-> R.control_word, status_word |-> R.status_word, rest |-> R.rest]

get_x87_control_word(R) == R.control_word

write_x87_control_word(R, w) == [R EXCEPT !.control_word = w]

get_x87_status_word(R) == R.status_word

get_mxcsr(R) == R.mxcsr

write_mxcsr(R, w) == [R EXCEPT !.mxcsr = w]

get_x87_state_descriptor(R) ==
  [state |-> X87StateDescriptor(R),
   fpu   |-> [R EXCEPT !.control_word = BitOr(R.control_word, 63)]]

write_x87_state_descriptor(R, st) ==
  [R EXCEPT !.control_word = st.control_word,
            !.status_word = st.status_word,
            !.rest = st.rest]

Result(R, v) == [fpu |-> R, ret |-> v]

(***************************************************************************)
(* The functions of fputil, each from register state R to the register     *)
(* state it leaves and the value it returns.                               *)
(***************************************************************************)
enable_except_ReturnsNew(R, excepts) ==
  LET bit_mask == get_status_value_for_except(excepts)
      x87_cw == get_x87_control_word(R)
      R1 == write_x87_control_word(R, BitAndNot(x87_cw, bit_mask))
      mxcsr == get_mxcsr(R1)
      R2 == write_mxcsr(R1, BitAndNot(mxcsr,
                 Shl(bit_mask, MXCSR_EXCEPTION_CONTOL_BIT_POISTION)))
      new_excepts == BitAnd(Uint16(65535 - get_x87_control_word(R2)), 63)
  IN  Result(R2, exception_status_to_macro(new_excepts))

enable_except(R, excepts) ==
  LET bit_mask == get_status_value_for_except(excepts)
      x87_cw == get_x87_control_word(R)
      old_excepts == BitAnd(Uint16(65535 - x87_cw), 63)
      R1 == write_x87_control_word(R, BitAndNot(x87_cw, bit_mask))
      mxcsr == get_mxcsr(R1)
      R2 == write_mxcsr(R1, BitAndNot(mxcsr,
                 Shl(bit_mask, MXCSR_EXCEPTION_CONTOL_BIT_POISTION)))
  IN  Result(R2, exception_status_to_macro(old_excepts))

disable_except(R, excepts) ==
  LET bit_mask == get_status_value_for_except(excepts)
      x87_cw == get_x87_control_word(R)
      old_excepts == BitAnd(Uint16(65535 - x87_cw), 63)
      R1 == write_x87_control_word(R, BitOr(x87_cw, bit_mask))
      mxcsr == get_mxcsr(R1)
      R2 == write_mxcsr(R1, BitOr(mxcsr,
                 Shl(bit_mask, MXCSR_EXCEPTION_CONTOL_BIT_POISTION)))
  IN  Result(R2, exception_status_to_macro(old_excepts))

get_except(R) ==
  LET mxcsr == Uint16(get_mxcsr(R))
      enabled_excepts == BitAnd(Uint16(65535 - Shr(mxcsr, 7)), 63)
  IN  Result(R, exception_status_to_macro(enabled_excepts))

clear_except(R, excepts) ==
  LET d == get_x87_state_descriptor(R)
      state == [d.state EXCEPT !.status_word =
                  BitAndNot(@, get_status_value_for_except(excepts))]
      R1 == write_x87_state_descriptor(d.fpu, state)
      mxcsr == get_mxcsr(R1)
      R2 == write_mxcsr(R1, BitAndNot(mxcsr, get_status_value_for_except(excepts)))
  IN  Result(R2, 0)

test_except(R, excepts) ==
  LET status_word == get_x87_status_word(R)
      mxcsr == get_mxcsr(R)
      status_value == get_status_value_for_except(excepts)
  IN  Result(R, exception_status_to_macro(
                  Uint16(BitAnd(status_value, BitOr(status_word, mxcsr)))))

set_except(R, excepts) ==
  LET status_value == get_status_value_for_except(excepts)
      d == get_x87_state_descriptor(R)
      state == [d.state EXCEPT !.status_word = BitOr(@, status_value)]
      R1 == write_x87_state_descriptor(d.fpu, state)
      mxcsr == get_mxcsr(R1)
      R2 == write_mxcsr(R1, BitOr(mxcsr, status_value))
  IN  Result(R2, 0)

(***************************************************************************)
(* raise_except: the order in which the flags are tried, and raise_helper  *)
(* up to its fwait.  fwait delivers a pending unmasked x87 exception: the  *)
(* handler then runs before the next statement of raise_except.            *)
(***************************************************************************)
RaiseOrder ==
  <<INVALID_F, DIV_BY_ZERO_F, OVERFLOW_F, UNDERFLOW_F, INEXACT_F>>
    \o (IF FE_DENORM_defined THEN <<DENORMAL_F>> ELSE <<>>)

RECURSIVE OrAll(_)
OrAll(flags) ==
  IF flags = <<>> THEN 0 ELSE BitOr(Head(flags), OrAll(Tail(flags)))

raise_helper_StaleStatus(R, singleExceptFlag) ==
  LET d == get_x87_state_descriptor(R)
      state == [d.state EXCEPT !.status_word =
                  BitOr(BitOr(raising.entry.status_word, OrAll(raising.raised)),
                        singleExceptFlag)]
      R1 == write_x87_state_descriptor(d.fpu, state)
      mxcsr == get_mxcsr(R1)
  IN  write_mxcsr(R1, BitOr(mxcsr, singleExceptFlag))

raise_helper(R, singleExceptFlag) ==
  LET d == get_x87_state_descriptor(R)
      state == [d.state EXCEPT !.status_word = BitOr(@, singleExceptFlag)]
      R1 == write_x87_state_descriptor(d.fpu, state)
      mxcsr == get_mxcsr(R1)
  IN  write_mxcsr(R1, BitOr(mxcsr, singleExceptFlag))

Pending(R) == BitAnd(BitAndNot(R.status_word, R.control_word), 63)

get_round(R) ==
  LET bit_value == BitAnd(Shr(get_mxcsr(R), MXCSR_ROUNDING_CONTROL_BIT_POSITION), 3)
  IN  Result(R, CASE bit_value = TO_NEAREST -> FE_TONEAREST
                  [] bit_value = DOWNWARD -> FE_DOWNWARD
                  [] bit_value = UPWARD -> FE_UPWARD
                  [] bit_value = TOWARD_ZERO -> FE_TOWARDZERO
                  [] OTHER -> -1)

set_round_NoClear(R, mode) ==
  IF mode \notin {FE_TONEAREST, FE_DOWNWARD, FE_UPWARD, FE_TOWARDZERO}
  THEN Result(R, 1)
  ELSE
    LET bit_value == CASE mode = FE_TONEAREST -> TO_NEAREST
                       [] mode = FE_DOWNWARD -> DOWNWARD
                       [] mode = FE_UPWARD -> UPWARD
                       [] mode = FE_TOWARDZERO -> TOWARD_ZERO
        x87_value == Uint16(Shl(bit_value, X87_ROUNDING_CONTROL_BIT_POSITION))
        R1 == write_x87_control_word(R,
                 Uint16(BitOr(get_x87_control_word(R), x87_value)))
        mxcsr_value == Shl(bit_value, MXCSR_ROUNDING_CONTROL_BIT_POSITION)
    IN  Result(write_mxcsr(R1, BitOr(get_mxcsr(R1), mxcsr_value)), 0)

set_round_DefaultNearest(R, mode) ==
  LET bit_value == CASE mode = FE_DOWNWARD -> DOWNWARD
                     [] mode = FE_UPWARD -> UPWARD
                     [] mode = FE_TOWARDZERO -> TOWARD_ZERO
                     [] OTHER -> TO_NEAREST
      x87_value == Uint16(Shl(bit_value, X87_ROUNDING_CONTROL_BIT_POSITION))
      x87_control == Uint16(BitOr(
          BitAndNot(get_x87_control_word(R),
                    Shl(3, X87_ROUNDING_CONTROL_BIT_POSITION)),
          x87_value))
      R1 == write_x87_control_word(R, x87_control)
      mxcsr_value == Shl(bit_value, MXCSR_ROUNDING_CONTROL_BIT_POSITION)
      mxcsr_control == BitOr(
          BitAndNot(get_mxcsr(R1), Shl(3, MXCSR_ROUNDING_CONTROL_BIT_POSITION)),
          mxcsr_value)
  IN  Result(write_mxcsr(R1, mxcsr_control), 0)

set_round(R, mode) ==
  IF mode \notin {FE_TONEAREST, FE_DOWNWARD, FE_UPWARD, FE_TOWARDZERO}
  THEN Result(R, 1)
  ELSE
    LET bit_value == CASE mode = FE_TONEAREST -> TO_NEAREST
                       [] mode = FE_DOWNWARD -> DOWNWARD
                       [] mode = FE_UPWARD -> UPWARD
                       [] mode = FE_TOWARDZERO -> TOWARD_ZERO
        x87_value == Uint16(Shl(bit_value, X87_ROUNDING_CONTROL_BIT_POSITION))
        x87_control == Uint16(BitOr(
            BitAndNot(get_x87_control_word(R),
                      Shl(3, X87_ROUNDING_CONTROL_BIT_POSITION)),
            x87_value))
        R1 == write_x87_control_word(R, x87_control)
        mxcsr_value == Shl(bit_value, MXCSR_ROUNDING_CONTROL_BIT_POSITION)
        mxcsr_control == BitOr(
            BitAndNot(get_mxcsr(R1), Shl(3, MXCSR_ROUNDING_CONTROL_BIT_POSITION)),
            mxcsr_value)
    IN  Result(write_mxcsr(R1, mxcsr_control), 0)

(***************************************************************************)
(* FPState (neither Windows nor Apple) and get_env / set_env.  envp is     *)
(* FE_DFL_ENV or the address of the caller's fenv_t, whose contents are e. *)
(***************************************************************************)
FPState(x87_status, mxcsr) == [x87_status |-> x87_status, mxcsr |-> mxcsr]

FE_DFL_ENV == "FE_DFL_ENV"

get_env(R) ==
  LET d == get_x87_state_descriptor(R)
  IN  [fpu |-> d.fpu, ret |-> 0, state |-> FPState(d.state, get_mxcsr(d.fpu))]

set_env_KeepsFlushToZero(R, envp, e) ==
  LET d == get_x87_state_descriptor(R)
      x87_status == d.state
  IN  IF envp = FE_DFL_ENV
      THEN
        LET st == [control_word |->
                     BitOr(BitAndNot(BitOr(x87_status.control_word, 63),
                                     Shl(3, 10)),
                           Shl(3, 8)),
                   status_word |-> BitAndNot(x87_status.status_word, 63),
                   rest |-> 0]
            R1 == write_x87_state_descriptor(d.fpu, st)
            m0 == get_mxcsr(R1)
            m1 == BitAndNot(m0, 63)
            m2 == BitAndNot(m1, Shl(1, 6))
            m3 == BitOr(m2, Shl(63, 7))
            m4 == BitAndNot(m3, Shl(3, 13))
        IN  Result(write_mxcsr(R1, m4), 0)
      ELSE
        LET fpstate == e
            st == [control_word |-> fpstate.x87_status.control_word,
                   status_word |->
                     BitOr(BitAndNot(x87_status.status_word, 63),
                           BitAnd(fpstate.x87_status.status_word, 63)),
                   rest |-> fpstate.x87_status.rest]
            R1 == write_x87_state_descriptor(d.fpu, st)
        IN  Result(write_mxcsr(R1, fpstate.mxcsr), 0)

set_env_KeepsMxcsr(R, envp, e) ==
  LET d == get_x87_state_descriptor(R)
      x87_status == d.state
  IN  IF envp = FE_DFL_ENV
      THEN
        LET st == [control_word |->
                     BitOr(BitAndNot(BitOr(x87_status.control_word, 63),
                                     Shl(3, 10)),
                           Shl(3, 8)),
                   status_word |-> BitAndNot(x87_status.status_word, 63),
                   rest |-> 0]
            R1 == write_x87_state_descriptor(d.fpu, st)
            m0 == get_mxcsr(R1)
            m1 == BitAndNot(m0, 63)
            m2 == BitAndNot(m1, Shl(1, 6))
            m3 == BitOr(m2, Shl(63, 7))
            m4 == BitAndNot(m3, Shl(3, 13))
            m5 == BitAndNot(m4, Shl(1, 15))
        IN  Result(write_mxcsr(R1, m5), 0)
      ELSE
        LET fpstate == e
            st == [control_word |-> fpstate.x87_status.control_word,
                   status_word |->
                     BitOr(BitAndNot(x87_status.status_word, 63),
                           BitAnd(fpstate.x87_status.status_word, 63)),
                   rest |-> fpstate.x87_status.rest]
            R1 == write_x87_state_descriptor(d.fpu, st)
        IN  Result(R1, 0)

set_env(R, envp, e) ==
  LET d == get_x87_state_descriptor(R)
      x87_status == d.state
  IN  IF envp = FE_DFL_ENV
      THEN
        LET st == [control_word |->
                     BitOr(BitAndNot(BitOr(x87_status.control_word, 63),
                                     Shl(3, 10)),
                           Shl(3, 8)),
                   status_word |-> BitAndNot(x87_status.status_word, 63),
                   rest |-> 0]
            R1 == write_x87_state_descriptor(d.fpu, st)
            m0 == get_mxcsr(R1)
            m1 == BitAndNot(m0, 63)
            m2 == BitAndNot(m1, Shl(1, 6))
            m3 == BitOr(m2, Shl(63, 7))
            m4 == BitAndNot(m3, Shl(3, 13))
            m5 == BitAndNot(m4, Shl(1, 15))
        IN  Result(write_mxcsr(R1, m5), 0)
      ELSE
        LET fpstate == e
            st == [control_word |-> fpstate.x87_status.control_word,
                   status_word |->
                     BitOr(BitAndNot(x87_status.status_word, 63),
                           BitAnd(fpstate.x87_status.status_word, 63)),
                   rest |-> fpstate.x87_status.rest]
            R1 == write_x87_state_descriptor(d.fpu, st)
        IN  Result(write_mxcsr(R1, fpstate.mxcsr), 0)

(***************************************************************************)
(* State of the floating point environment before any call: the registers  *)
(* as the processor and the ABI initialise them (x87 control word 0x037F,  *)
(* MXCSR 0x1F80), a fenv_t not yet filled, no call made, no raise_except   *)
(* in progress.                                                            *)
(***************************************************************************)
ResetRegisters ==
  [control_word |-> 895, status_word |-> 0, rest |-> 0, mxcsr |-> 8064]

NoEnv ==
  [filled |-> FALSE,
   state |-> FPState(X87StateDescriptor(ResetRegisters), 0),
   observed |-> [round |-> 0, except |-> 0, test |-> 0],
   dirty |-> FALSE]

NoCall == [name |-> "none", arg |-> 0, envp |-> "", ret |-> 0]

NotRaising ==
  [active |-> FALSE, status_value |-> 0, pc |-> 1, stage |-> "ready",
   raised |-> <<>>, cleared |-> 0, entry |-> ResetRegisters]

(***************************************************************************)
(* The calls.  The codec keeps nothing between calls, so every call is     *)
(* made from the initial state with arguments drawn from the bounded sets  *)
(* and the state it leads to is the record of that one call.               *)
(***************************************************************************)
NoArgs ==
  [VLMul |-> 0, SEW |-> 0, EEW |-> 0, TailAgnostic |-> FALSE,
   MaskAgnostic |-> FALSE, Widen |-> 0, AltFmt |-> FALSE, VType |-> 0]

Record(name, a, r) ==
  /\ fn' = name
  /\ args' = a
  /\ outcome' = r.outcome
  /\ ret' = r.value
  /\ flag' = r.flag
  /\ OS' = r.os
  /\ UNCHANGED fenvVars

Init ==
  /\ fn = "none"
  /\ args = NoArgs
  /\ outcome = "none"
  /\ ret = 0
  /\ flag = FALSE
  /\ OS = ""
  /\ hdr = "llvm-libc"
  /\ fpu = ResetRegisters
  /\ env = NoEnv
  /\ call = NoCall
  /\ raising = NotRaising
  /\ ncalls = 0

Idle == fn = "none"

CallEncodeVTYPE ==
  /\ Idle
  /\ \E VLMul \in VLMULCodes, SEW \in 0..MaxWidth, TA \in BOOLEAN, MA \in BOOLEAN :
       Record("encodeVTYPE",
              [NoArgs EXCEPT !.VLMul = VLMul, !.SEW = SEW,
                             !.TailAgnostic = TA, !.MaskAgnostic = MA],
              encodeVTYPE(VLMul, SEW, TA, MA))

CallEncodeXSfmmVType ==
  /\ Idle
  /\ \E SEW \in 0..MaxWidth, Widen \in 0..MaxWiden, AltFmt \in BOOLEAN :
       Record("encodeXSfmmVType",
              [NoArgs EXCEPT !.SEW = SEW, !.Widen = Widen, !.AltFmt = AltFmt],
              encodeXSfmmVType(SEW, Widen, AltFmt))

CallDecodeVLMUL ==
  /\ Idle
  /\ \E VLMul \in VLMULCodes :
       Record("decodeVLMUL", [NoArgs EXCEPT !.VLMul = VLMul], decodeVLMUL(VLMul))

CallPrintVType ==
  /\ Idle
  /\ \E VType \in 0..MaxVType :
       Record("printVType", [NoArgs EXCEPT !.VType = VType], printVType(VType))

CallGetSEWLMULRatio ==
  /\ Idle
  /\ \E SEW \in 0..MaxWidth, VLMul \in VLMULCodes :
       Record("getSEWLMULRatio",
              [NoArgs EXCEPT !.SEW = SEW, !.VLMul = VLMul],
              getSEWLMULRatio(SEW, VLMul))

CallGetSameRatioLMUL ==
  /\ Idle
  /\ \E SEW \in 0..MaxWidth, VLMul \in VLMULCodes, EEW \in 0..MaxWidth :
       \E r \in getSameRatioLMUL(SEW, VLMul, EEW) :
         Record("getSameRatioLMUL",
                [NoArgs EXCEPT !.SEW = SEW, !.VLMul = VLMul, !.EEW = EEW], r)

Next ==
  \/ CallEncodeVTYPE
  \/ CallEncodeXSfmmVType
  \/ CallDecodeVLMUL
  \/ CallPrintVType
  \/ CallGetSEWLMULRatio
  \/ CallGetSameRatioLMUL

Spec == Init /\ [][Next]_vars

(***************************************************************************)
(* The floating point environment as a state machine: one thread calls the *)
(* functions of fputil one after another on registers that start in any of *)
(* InitialRegisters.  A call is one step, except raise_except, which is    *)
(* one step to enter, one step per raise_helper (up to and including its   *)
(* fwait), one step for each run of the exception handler that the fwait   *)
(* delivers, and one step to return.  The handler clears the flags that    *)
(* caused it, or all six, in the x87 status word and returns.  Exception   *)
(* delivery at other instructions is left out.                             *)
(***************************************************************************)
MaxCalls == 2

MaxEnvCalls == 4

MaxRaises == 2

ControlWords == {895, 832, 3966, 1659}

StatusWords == {0, 14377}

RestWords == {0, 1}

MxcsrWords == {8064, 0, 65535, 15649}

InitialRegisters ==
  [control_word : ControlWords, status_word : StatusWords,
   rest : RestWords, mxcsr : MxcsrWords]

ExceptArgs == {0, FE_INVALID, FE_OVERFLOW + FE_INEXACT, FE_ALL_EXCEPT}

RoundArgs == {FE_TONEAREST, FE_DOWNWARD, FE_UPWARD, FE_TOWARDZERO, 1, 5120}

InitFenv ==
  /\ fn = "none"
  /\ args = NoArgs
  /\ outcome = "none"
  /\ ret = 0
  /\ flag = FALSE
  /\ OS = ""
  /\ hdr \in Headers
  /\ fpu \in InitialRegisters
  /\ env = NoEnv
  /\ call = NoCall
  /\ raising = NotRaising
  /\ ncalls = 0

CanCall == ~raising.active

Observed(R) ==
  [round |-> get_round(R).ret,
   except |-> get_except(R).ret,
   test |-> test_except(R, FE_ALL_EXCEPT).ret]

Track(R) ==
  IF env.filled THEN [env EXCEPT !.dirty = Observed(R) # env.observed] ELSE env

Done(name, arg, envp, r, e) ==
  /\ fpu' = r.fpu
  /\ call' = [name |-> name, arg |-> arg, envp |-> envp, ret |-> r.ret]
  /\ env' = e
  /\ ncalls' = ncalls + 1
  /\ UNCHANGED <<hdr, raising>>
  /\ UNCHANGED codecVars

CallEnableExcept ==
  /\ CanCall
  /\ \E excepts \in ExceptArgs :
       LET r == enable_except(fpu, excepts)
       IN  Done("enable_except", excepts, "", r, Track(r.fpu))

CallDisableExcept ==
  /\ CanCall
  /\ \E excepts \in ExceptArgs :
       LET r == disable_except(fpu, excepts)
       IN  Done("disable_except", excepts, "", r, Track(r.fpu))

CallGetExcept ==
  /\ CanCall
  /\ Done("get_except", 0, "", get_except(fpu), env)

CallClearExcept ==
  /\ CanCall
  /\ \E excepts \in ExceptArgs :
       LET r == clear_except(fpu, excepts)
       IN  Done("clear_except", excepts, "", r, Track(r.fpu))

CallTestExcept ==
  /\ CanCall
  /\ \E excepts \in ExceptArgs :
       Done("test_except", excepts, "", test_except(fpu, excepts), env)

CallSetExcept ==
  /\ CanCall
  /\ \E excepts \in ExceptArgs :
       LET r == set_except(fpu, excepts)
       IN  Done("set_except", excepts, "", r, Track(r.fpu))

CallGetRound ==
  /\ CanCall
  /\ Done("get_round", 0, "", get_round(fpu), env)

CallSetRound ==
  /\ CanCall
  /\ \E mode \in RoundArgs :
       LET r == set_round(fpu, mode)
       IN  Done("set_round", mode, "", r, Track(r.fpu))

CallGetEnv ==
  /\ CanCall
  /\ LET r == get_env(fpu)
     IN  Done("get_env", 0, "e", r,
              [filled |-> TRUE, state |-> r.state,
               observed |-> Observed(fpu), dirty |-> FALSE])

CallSetEnv ==
  /\ CanCall
  /\ \E envp \in {FE_DFL_ENV} \cup (IF env.filled THEN {"e"} ELSE {}) :
       Done("set_env", 0, envp, set_env(fpu, envp, env.state), env)

Requested(i) == Test(raising.status_value, RaiseOrder[i])

Remaining == {i \in raising.pc .. Len(RaiseOrder) : Requested(i)}

Least(S) == CHOOSE i \in S : \A j \in S : i <= j

CallRaiseExcept ==
  /\ CanCall
  /\ \E excepts \in ExceptArgs :
       /\ raising' = [active |-> TRUE,
                      status_value |-> get_status_value_for_except(excepts),
                      pc |-> 1, stage |-> "ready", raised |-> <<>>,
                      cleared |-> 0, entry |-> fpu]
       /\ call' = [name |-> "raise_except", arg |-> excepts, envp |-> "",
                   ret |-> -1]
  /\ ncalls' = ncalls + 1
  /\ UNCHANGED <<hdr, fpu, env>>
  /\ UNCHANGED codecVars

RaiseHelperStep ==
  /\ raising.active
  /\ raising.stage = "ready"
  /\ Remaining # {}
  /\ LET i == Least(Remaining)
         R1 == raise_helper(fpu, RaiseOrder[i])
     IN  /\ fpu' = R1
         /\ raising' = [raising EXCEPT
                          !.pc = i + 1,
                          !.stage = IF Pending(R1) # 0 THEN "handler" ELSE "ready",
                          !.raised = Append(@, RaiseOrder[i]),
                          !.cleared = BitAndNot(@, RaiseOrder[i])]
  /\ UNCHANGED <<hdr, env, call, ncalls>>
  /\ UNCHANGED codecVars

ExceptionHandler ==
  /\ raising.active
  /\ raising.stage = "handler"
  /\ \E clr \in {Pending(fpu), 63} :
       /\ fpu' = [fpu EXCEPT !.status_word = BitAndNot(@, clr)]
       /\ raising' = [raising EXCEPT
                        !.stage = "ready",
                        !.cleared = BitOr(@, BitAnd(fpu.status_word, clr))]
  /\ UNCHANGED <<hdr, env, call, ncalls>>
  /\ UNCHANGED codecVars

RaiseReturn ==
  /\ raising.active
  /\ raising.stage = "ready"
  /\ Remaining = {}
  /\ raising' = [raising EXCEPT !.active = FALSE]
  /\ call' = [call EXCEPT !.ret = 0]
  /\ env' = Track(fpu)
  /\ UNCHANGED <<hdr, fpu, ncalls>>
  /\ UNCHANGED codecVars

NextFenv ==
  \/ ncalls < MaxCalls /\ CallEnableExcept
  \/ ncalls < MaxCalls /\ CallDisableExcept
  \/ ncalls < MaxCalls /\ CallGetExcept
  \/ ncalls < MaxCalls /\ CallTestExcept
  \/ ncalls < MaxCalls /\ CallGetRound
  \/ ncalls < MaxCalls /\ CallSetRound
  \/ ncalls < MaxCalls /\ CallSetEnv

SpecFenv == InitFenv /\ [][NextFenv]_vars

(***************************************************************************)
(* Saving and restoring the environment: the caller fills its fenv_t with  *)
(* get_env, changes the environment and hands the fenv_t to set_env.       *)
(***************************************************************************)
EnvRegisters ==
  {R \in InitialRegisters :
     R.control_word \in {895, 1659} /\ R.mxcsr \in {8064, 15649} /\ R.rest = 1}

InitEnv ==
  /\ InitFenv
  /\ fpu \in EnvRegisters

NextEnv ==
  \/ ncalls < MaxEnvCalls /\ ~env.filled /\ CallGetEnv
  \/ ncalls < MaxEnvCalls /\ env.filled /\ CallSetRound
  \/ ncalls < MaxEnvCalls /\ env.filled /\ CallEnableExcept
  \/ ncalls < MaxEnvCalls /\ env.filled /\ CallDisableExcept
  \/ ncalls < MaxEnvCalls /\ env.filled /\ CallSetExcept
  \/ ncalls < MaxEnvCalls /\ env.filled /\ CallClearExcept
  \/ ncalls < MaxEnvCalls /\ env.filled /\ CallSetEnv

SpecEnv == InitEnv /\ [][NextEnv]_vars

(***************************************************************************)
(* Raising exceptions, with the handler that fwait delivers.               *)
(***************************************************************************)
NextRaise ==
  \/ ncalls < MaxRaises /\ CallRaiseExcept
  \/ RaiseHelperStep
  \/ ExceptionHandler
  \/ RaiseReturn

SpecRaise == InitFenv /\ [][NextRaise]_vars

FenvTypeOK ==
  /\ fpu.control_word \in 0 .. 65535
  /\ fpu.status_word \in 0 .. 65535
  /\ fpu.mxcsr \in 0 .. 65535

(***************************************************************************)
(* Properties.  Fields of a word are read here by division, independently  *)
(* of the operators above.                                                 *)
(***************************************************************************)
ValidSEWs == {8, 16, 32, 64}

LegalLMULs == VLMULCodes \ {LMUL_RESERVED}

Bits(word, lo, width) == (word \div 2^lo) % 2^width

SEWCode(SEW) == CHOOSE k \in 0..3 : 8 * 2^k = SEW

\* C1: for a valid SEW, any LMUL code and any (ta, ma), the word encodeVTYPE
\* returns has bits 2:0 = LMUL code, bits 5:3 = log2(SEW/8), bit 6 = ta,
\* bit 7 = ma, and nothing set above bit 7.
C1_EncodeLayout ==
  (fn = "encodeVTYPE" /\ args.SEW \in ValidSEWs) =>
    /\ outcome = "returned"
    /\ Bits(ret, 0, 3) = args.VLMul
    /\ Bits(ret, 3, 3) = SEWCode(args.SEW)
    /\ (Bits(ret, 6, 1) = 1) = args.TailAgnostic
    /\ (Bits(ret, 7, 1) = 1) = args.MaskAgnostic
    /\ ret \div 2^8 = 0

C1_Witness ==
  /\ fn = "encodeVTYPE" /\ outcome = "returned"
  /\ args.SEW = 64 /\ args.VLMul = LMUL_F2
  /\ args.TailAgnostic /\ ~args.MaskAgnostic
  /\ ret = 64 + 24 + 7

\* C2: decoding the word encodeVTYPE returns (LMUL = bits 2:0,
\* SEW = 8 << bits 5:3, ta = bit 6, ma = bit 7) gives back the arguments.
C2_RoundTrip ==
  (fn = "encodeVTYPE" /\ args.SEW \in ValidSEWs) =>
    /\ outcome = "returned"
    /\ <<ret % 8, 8 * 2^((ret \div 8) % 8), (ret \div 64) % 2 = 1, (ret \div 128) % 2 = 1>>
         = <<args.VLMul, args.SEW, args.TailAgnostic, args.MaskAgnostic>>

C2_Witness ==
  /\ fn = "encodeVTYPE" /\ outcome = "returned"
  /\ args.SEW = 16 /\ args.VLMul = LMUL_RESERVED
  /\ ~args.TailAgnostic /\ args.MaskAgnostic

\* C3 as stated: encodeVTYPE(LMUL_1, 32, false, false) = 0x02 and
\* encodeVTYPE(LMUL_1, 32, true, true) = 0xC2.
IsCallLMUL1SEW32(ta, ma) ==
  /\ fn = "encodeVTYPE"
  /\ args.VLMul = LMUL_1 /\ args.SEW = 32
  /\ args.TailAgnostic = ta /\ args.MaskAgnostic = ma

C3_AsStated ==
  /\ IsCallLMUL1SEW32(FALSE, FALSE) => (outcome = "returned" /\ ret = 2)
  /\ IsCallLMUL1SEW32(TRUE, TRUE) => (outcome = "returned" /\ ret = 12 * 16 + 2)

\* C3 amended: encodeVTYPE(LMUL_1, 32, false, false) = 0x10 and
\* encodeVTYPE(LMUL_1, 32, true, true) = 0xD0 (SEW 32 is code 2 in bits 5:3).
C3_ExactWords ==
  /\ IsCallLMUL1SEW32(FALSE, FALSE) => (outcome = "returned" /\ ret = 16)
  /\ IsCallLMUL1SEW32(TRUE, TRUE) => (outcome = "returned" /\ ret = 13 * 16)

C3_Witness == IsCallLMUL1SEW32(TRUE, TRUE) /\ outcome = "returned"

(***************************************************************************)
(* LMUL as a number, from the names of the codes: LMUL_1..LMUL_8 are       *)
(* 2^0..2^3 and LMUL_F8, LMUL_F4, LMUL_F2 are 2^-3, 2^-2, 2^-1.            *)
(* LMULEighths is the multiplier counted in eighths.                       *)
(***************************************************************************)
LMULExp(code) == IF code < LMUL_RESERVED THEN code ELSE code - 8

LMULOfExp(e) == IF e >= 0 THEN e ELSE e + 8

LMULEighths(code) == 2^(LMULExp(code) + 3)

IsSameRatioCall ==
  fn = "getSameRatioLMUL" /\ args.VLMul \in LegalLMULs

\* C4: for SEW and EEW in {8,16,32,64} and a legal LMUL, whenever
\* getSameRatioLMUL returns an LMUL L', getSEWLMULRatio(EEW, L') equals
\* getSEWLMULRatio(SEW, LMUL).
C4_RatioPreserved ==
  (/\ IsSameRatioCall
   /\ args.SEW \in ValidSEWs /\ args.EEW \in ValidSEWs
   /\ outcome = "returned" /\ flag) =>
    /\ ret \in LegalLMULs
    /\ getSEWLMULRatio(args.EEW, ret).outcome = "returned"
    /\ getSEWLMULRatio(args.EEW, ret).value = getSEWLMULRatio(args.SEW, args.VLMul).value

C4_Witness ==
  /\ IsSameRatioCall /\ outcome = "returned" /\ flag
  /\ args.SEW = 16 /\ args.VLMul = LMUL_F2 /\ args.EEW = 64
  /\ ret = LMUL_2

\* C5 as stated: for SEW and EEW in {8,16,32,64} and each legal LMUL the call
\* returns normally, a legal LMUL or no value, and when the LMUL keeping the
\* ratio is below 1/8 or above 8 it returns no value (never a failure).
EMULOutOfRange ==
  \/ LMULEighths(args.VLMul) * args.EEW < args.SEW
  \/ LMULEighths(args.VLMul) * args.EEW > 64 * args.SEW

C5_Total ==
  (IsSameRatioCall /\ args.SEW \in ValidSEWs /\ args.EEW \in ValidSEWs) =>
    /\ outcome = "returned"
    /\ flag => ret \in LegalLMULs
    /\ EMULOutOfRange => ~flag

\* C6 as stated: for SEW >= 8 and a legal LMUL, when (EEW*8)/ratio is at
\* least 1 and not one of 1,2,4,8,16,32,64, getSameRatioLMUL returns no value.
EMULFixedPointOfCall ==
  (args.EEW * 8) \div ((args.SEW * 8) \div LMULEighths(args.VLMul))

C6_Unrepresentable ==
  (/\ IsSameRatioCall /\ args.SEW >= 8
   /\ EMULFixedPointOfCall >= 1
   /\ EMULFixedPointOfCall \notin {1, 2, 4, 8, 16, 32, 64}) =>
    (outcome = "returned" /\ ~flag)

\* C7: for a valid SEW and a legal LMUL, getSameRatioLMUL(SEW, LMUL, EEW = SEW)
\* returns exactly LMUL.
C7_SameWidthIdentity ==
  (IsSameRatioCall /\ args.SEW \in ValidSEWs /\ args.EEW = args.SEW) =>
    (outcome = "returned" /\ flag /\ ret = args.VLMul)

C7_Witness ==
  /\ IsSameRatioCall /\ outcome = "returned" /\ flag
  /\ args.SEW = 32 /\ args.EEW = 32 /\ args.VLMul = LMUL_F8 /\ ret = LMUL_F8

\* C8: for a valid SEW, a legal LMUL and a power-of-two k with SEW*k still
\* valid and LMUL*k still legal, getSEWLMULRatio(SEW*k, LMUL*k) equals
\* getSEWLMULRatio(SEW, LMUL).
ScaleExps == -3 .. 3

ScaledSEW(SEW, j) == IF j >= 0 THEN SEW * 2^j ELSE SEW \div 2^(-j)

C8_RatioInvariance ==
  (fn = "getSEWLMULRatio" /\ args.SEW \in ValidSEWs /\ args.VLMul \in LegalLMULs) =>
    /\ outcome = "returned"
    /\ \A j \in ScaleExps :
         (/\ ScaledSEW(args.SEW, j) \in ValidSEWs
          /\ LMULExp(args.VLMul) + j \in -3 .. 3) =>
           LET R == getSEWLMULRatio(ScaledSEW(args.SEW, j),
                                    LMULOfExp(LMULExp(args.VLMul) + j))
           IN  R.outcome = "returned" /\ R.value = ret

C8_Witness ==
  /\ fn = "getSEWLMULRatio" /\ outcome = "returned"
  /\ args.SEW = 16 /\ args.VLMul = LMUL_1 /\ ret = 16
  /\ getSEWLMULRatio(32, LMUL_2).value = 16
  /\ getSEWLMULRatio(8, LMUL_F2).value = 16

\* C9: decodeVLMUL maps the legal codes one-to-one onto 1, 2, 4, 8, 1/8, 1/4,
\* 1/2: a whole code c gives (1 << c, false), a fractional code c gives
\* (1 << (8 - c), true); LMUL_2 gives (2, false), LMUL_F4 gives (4, true);
\* no two legal codes give the same pair.
DecodedLMULs ==
  {<<1, FALSE>>, <<2, FALSE>>, <<4, FALSE>>, <<8, FALSE>>,
   <<8, TRUE>>, <<4, TRUE>>, <<2, TRUE>>}

C9_DecodeBijection ==
  (fn = "decodeVLMUL" /\ args.VLMul \in LegalLMULs) =>
    /\ outcome = "returned"
    /\ args.VLMul < LMUL_RESERVED => (ret = 2^args.VLMul /\ ~flag)
    /\ args.VLMul > LMUL_RESERVED => (ret = 2^(8 - args.VLMul) /\ flag)
    /\ args.VLMul = LMUL_2 => <<ret, flag>> = <<2, FALSE>>
    /\ args.VLMul = LMUL_F4 => <<ret, flag>> = <<4, TRUE>>
    /\ <<ret, flag>> \in DecodedLMULs
    /\ \A c \in LegalLMULs \ {args.VLMul} :
         <<decodeVLMUL(c).value, decodeVLMUL(c).flag>> # <<ret, flag>>

C9_Witness ==
  /\ fn = "decodeVLMUL" /\ outcome = "returned"
  /\ args.VLMul = LMUL_F4 /\ ret = 4 /\ flag

\* C10: code 4 is the only one of the eight codes that is no legal LMUL, and
\* decodeVLMUL, getSEWLMULRatio, getSameRatioLMUL given it, and printVType
\* given a word with it in bits 2:0, end in llvm_unreachable and return
\* nothing; printVType has then written only the "e<SEW>" prefix.
GivenReservedLMUL ==
  \/ fn \in {"decodeVLMUL", "getSEWLMULRatio", "getSameRatioLMUL"}
       /\ args.VLMul = LMUL_RESERVED
  \/ fn = "printVType" /\ args.VType % 8 = LMUL_RESERVED

C10_ReservedIsFatal ==
  /\ fn = "decodeVLMUL" => (outcome = "unreachable" <=> args.VLMul = LMUL_RESERVED)
  /\ GivenReservedLMUL =>
       /\ outcome = "unreachable"
       /\ ret = 0 /\ ~flag
       /\ OS = (IF fn = "printVType"
                  THEN "e" \o write_unsigned(8 * 2^((args.VType \div 8) % 8))
                  ELSE "")

C10_Witness ==
  /\ fn = "printVType" /\ args.VType = 128 + 16 + LMUL_RESERVED
  /\ outcome = "unreachable" /\ OS = "e32"

\* C11 as stated: an invalid SEW passed to encodeVTYPE, getSEWLMULRatio or
\* encodeXSfmmVType always ends in the assertion failure.
GivenInvalidSEW(names) == fn \in names /\ args.SEW \notin ValidSEWs

C11_AsStated ==
  GivenInvalidSEW({"encodeVTYPE", "getSEWLMULRatio", "encodeXSfmmVType"}) =>
    outcome = "assert"

\* C11 amended: an invalid SEW passed to encodeVTYPE or encodeXSfmmVType ends
\* in the assertion failure.  getSEWLMULRatio asserts only SEW >= 8, after
\* decoding the LMUL: with the reserved LMUL code it ends in llvm_unreachable,
\* with a legal LMUL it ends in the assertion failure for SEW < 8 and returns
\* (SEW * 8) / (LMUL in eighths) for an invalid SEW >= 8.
C11_InvalidSEW ==
  /\ GivenInvalidSEW({"encodeVTYPE", "encodeXSfmmVType"}) =>
       (outcome = "assert" /\ ret = 0)
  /\ GivenInvalidSEW({"getSEWLMULRatio"}) =>
       IF args.VLMul = LMUL_RESERVED THEN outcome = "unreachable"
       ELSE IF args.SEW < 8 THEN outcome = "assert"
       ELSE /\ outcome = "returned"
            /\ ret * LMULEighths(args.VLMul) <= args.SEW * 8
            /\ args.SEW * 8 < (ret + 1) * LMULEighths(args.VLMul)

C11_Witness ==
  /\ fn = "getSEWLMULRatio" /\ args.SEW = 24 /\ args.VLMul = LMUL_2
  /\ outcome = "returned" /\ ret = 12

\* C12 as stated: codes 5, 6, 7 are the multipliers 1/2, 1/4, 1/8 in that
\* order, and codes 0, 1, 2, 3 are 1, 2, 4, 8.
IsDecodeOf(code) == fn = "decodeVLMUL" /\ args.VLMul = code

C12_AsStated ==
  /\ IsDecodeOf(5) => (outcome = "returned" /\ <<ret, flag>> = <<2, TRUE>>)
  /\ IsDecodeOf(6) => (outcome = "returned" /\ <<ret, flag>> = <<4, TRUE>>)
  /\ IsDecodeOf(7) => (outcome = "returned" /\ <<ret, flag>> = <<8, TRUE>>)
  /\ \A c \in 0 .. 3 :
       IsDecodeOf(c) => (outcome = "returned" /\ <<ret, flag>> = <<2^c, FALSE>>)

\* C12 amended: codes 5, 6, 7 are the multipliers 1/8, 1/4, 1/2 in that
\* order, and codes 0, 1, 2, 3 are 1, 2, 4, 8.
C12_CodeMeaning ==
  /\ IsDecodeOf(5) => (outcome = "returned" /\ <<ret, flag>> = <<8, TRUE>>)
  /\ IsDecodeOf(6) => (outcome = "returned" /\ <<ret, flag>> = <<4, TRUE>>)
  /\ IsDecodeOf(7) => (outcome = "returned" /\ <<ret, flag>> = <<2, TRUE>>)
  /\ \A c \in 0 .. 3 :
       IsDecodeOf(c) => (outcome = "returned" /\ <<ret, flag>> = <<2^c, FALSE>>)

C12_Witness == IsDecodeOf(5) /\ outcome = "returned" /\ ret = 8 /\ flag

\* C13: for the word encodeVTYPE makes of a valid SEW, a legal LMUL and
\* (ta, ma), printVType writes "e<SEW>, m<LMUL>" or "e<SEW>, mf<denominator>",
\* then ", ta" or ", tu", then ", ma" or ", mu"; distinct tuples give
\* distinct texts.
SEWText(SEW) ==
  CASE SEW = 8 -> "8" [] SEW = 16 -> "16" [] SEW = 32 -> "32" [] SEW = 64 -> "64"

LMULText(code) ==
  CASE code = LMUL_1 -> "m1" [] code = LMUL_2 -> "m2"
    [] code = LMUL_4 -> "m4" [] code = LMUL_8 -> "m8"
    [] code = LMUL_F8 -> "mf8" [] code = LMUL_F4 -> "mf4" [] code = LMUL_F2 -> "mf2"

VTypeText(code, SEW, ta, ma) ==
  "e" \o SEWText(SEW) \o ", " \o LMULText(code)
      \o (IF ta THEN ", ta" ELSE ", tu") \o (IF ma THEN ", ma" ELSE ", mu")

VTypeTuples == LegalLMULs \X ValidSEWs \X BOOLEAN \X BOOLEAN

C13_PrintFormat ==
  fn = "printVType" =>
    \A t \in VTypeTuples :
      encodeVTYPE(t[1], t[2], t[3], t[4]).value = args.VType =>
        /\ outcome = "returned"
        /\ OS = VTypeText(t[1], t[2], t[3], t[4])
        /\ \A u \in VTypeTuples \ {t} :
             printVType(encodeVTYPE(u[1], u[2], u[3], u[4]).value).os # OS

C13_Witness ==
  /\ fn = "printVType" /\ outcome = "returned"
  /\ args.VType = encodeVTYPE(LMUL_F2, 16, TRUE, FALSE).value
  /\ OS = "e16, mf2, ta, mu"

\* C14: for a valid SEW, Widen in {1, 2, 4} and AltFmt, encodeXSfmmVType
\* returns a word with bits 5:3 = log2(SEW/8), bit 8 = AltFmt, bits 10:9 =
\* log2(Widen) + 1 (never 0) and every other bit zero; any other Widen ends
\* in the assertion failure.
WidenCode(Widen) == CHOOSE k \in 1 .. 3 : 2^(k - 1) = Widen

C14_XSfmmLayout ==
  (fn = "encodeXSfmmVType" /\ args.SEW \in ValidSEWs) =>
    IF args.Widen \in {1, 2, 4}
      THEN /\ outcome = "returned"
           /\ Bits(ret, 3, 3) = SEWCode(args.SEW)
           /\ (Bits(ret, 8, 1) = 1) = args.AltFmt
           /\ Bits(ret, 9, 2) = WidenCode(args.Widen)
           /\ Bits(ret, 9, 2) # 0
           /\ Bits(ret, 0, 3) = 0
           /\ Bits(ret, 6, 2) = 0
           /\ ret \div 2^11 = 0
      ELSE outcome = "assert" /\ ret = 0

C14_Witness ==
  /\ fn = "encodeXSfmmVType" /\ outcome = "returned"
  /\ args.SEW = 64 /\ args.Widen = 4 /\ args.AltFmt
  /\ ret = 3 * 512 + 256 + 24

(***************************************************************************)
(* Helpers of the floating point environment claims.                       *)
(***************************************************************************)
MasksEqual(R) == BitAnd(R.control_word, 63) = BitAnd(Shr(R.mxcsr, 7), 63)

IsCallStep(names) == ncalls' = ncalls + 1 /\ call'.name \in names

RoundingModes == {FE_TONEAREST, FE_DOWNWARD, FE_UPWARD, FE_TOWARDZERO}

RoundEncoding(mode) ==
  CASE mode = FE_TONEAREST -> 0
    [] mode = FE_DOWNWARD -> 1
    [] mode = FE_UPWARD -> 2
    [] mode = FE_TOWARDZERO -> 3

WithoutBits(word, lo, width) == word - Bits(word, lo, width) * 2^lo

(***************************************************************************)
(* C16: set_round with one of the four rounding modes, from any register   *)
(* state, returns 0; get_round() right after it returns that mode; bits    *)
(* 11:10 of the x87 control word and bits 14:13 of MXCSR hold the mode's   *)
(* 2-bit encoding; every other bit of the two registers, and the rest of   *)
(* the x87 state, is as before the call.                                   *)
(***************************************************************************)
C16_SetRoundValid ==
  [][(IsCallStep({"set_round"}) /\ call'.arg \in RoundingModes) =>
       /\ call'.ret = 0
       /\ get_round(fpu').ret = call'.arg
       /\ Bits(fpu'.control_word, 10, 2) = RoundEncoding(call'.arg)
       /\ Bits(fpu'.mxcsr, 13, 2) = RoundEncoding(call'.arg)
       /\ WithoutBits(fpu'.control_word, 10, 2) = WithoutBits(fpu.control_word, 10, 2)
       /\ WithoutBits(fpu'.mxcsr, 13, 2) = WithoutBits(fpu.mxcsr, 13, 2)
       /\ fpu'.status_word = fpu.status_word
       /\ fpu'.rest = fpu.rest]_vars

C16_Witness ==
  /\ ncalls = 1
  /\ call = [name |-> "set_round", arg |-> FE_UPWARD, envp |-> "", ret |-> 0]
  /\ fpu.control_word = 2683
  /\ fpu.mxcsr = 23841
  /\ get_round(fpu).ret = FE_UPWARD

(***************************************************************************)
(* C17: set_round with a mode that is none of the four rounding modes      *)
(* returns 1 and leaves the x87 control word and MXCSR (the whole register *)
(* state) as they were, so get_round() returns what it returned before.    *)
(***************************************************************************)
C17_SetRoundInvalid ==
  [][(IsCallStep({"set_round"}) /\ call'.arg \notin RoundingModes) =>
       /\ call'.ret = 1
       /\ fpu' = fpu
       /\ get_round(fpu').ret = get_round(fpu).ret]_vars

C17_Witness ==
  /\ ncalls = 2
  /\ call = [name |-> "set_round", arg |-> 5120, envp |-> "", ret |-> 1]
  /\ get_round(fpu).ret = FE_TOWARDZERO
  /\ Bits(fpu.control_word, 10, 2) = 1

(***************************************************************************)
(* C20: after set_env(FE_DFL_ENV), from any register state, the call has   *)
(* returned 0; all six exceptions are masked in the x87 control word (bits *)
(* 5:0) and in MXCSR (bits 12:7); all six flags are clear in the x87       *)
(* status word and in MXCSR (bits 5:0); rounding is to nearest in both     *)
(* (control word bits 11:10, MXCSR bits 14:13); x87 precision is extended  *)
(* (control word bits 9:8 = 3); MXCSR flush-to-zero (bit 15) and           *)
(* denormals-are-zero (bit 6) are clear; and get_round() is FE_TONEAREST,  *)
(* get_except() is 0 and test_except(all exceptions) is 0.                 *)
(***************************************************************************)
C20_DefaultEnv ==
  (call.name = "set_env" /\ call.envp = FE_DFL_ENV) =>
    /\ call.ret = 0
    /\ Bits(fpu.control_word, 0, 6) = 63
    /\ Bits(fpu.mxcsr, 7, 6) = 63
    /\ Bits(fpu.status_word, 0, 6) = 0
    /\ Bits(fpu.mxcsr, 0, 6) = 0
    /\ Bits(fpu.control_word, 10, 2) = 0
    /\ Bits(fpu.mxcsr, 13, 2) = 0
    /\ Bits(fpu.control_word, 8, 2) = 3
    /\ Bits(fpu.mxcsr, 15, 1) = 0
    /\ Bits(fpu.mxcsr, 6, 1) = 0
    /\ get_round(fpu).ret = FE_TONEAREST
    /\ get_except(fpu).ret = 0
    /\ test_except(fpu, FE_ALL_EXCEPT).ret = 0

C20_Witness ==
  /\ ncalls = 2
  /\ call = [name |-> "set_env", arg |-> 0, envp |-> FE_DFL_ENV, ret |-> 0]
  /\ fpu.status_word = 14336
  /\ fpu.rest = 0
  /\ fpu.mxcsr = 8064
  /\ fpu.control_word = 895

(***************************************************************************)
(* C18: when set_env(&e) has returned, after get_env(&e) and any calls of  *)
(* set_round, enable_except, disable_except, set_except and clear_except   *)
(* in between, get_round(), get_except() and test_except(all exceptions)   *)
(* return what they returned at the moment of get_env(&e).                 *)
(***************************************************************************)
C18_EnvRestored ==
  (call.name = "set_env" /\ call.envp = "e") =>
    /\ call.ret = 0
    /\ get_round(fpu).ret = env.observed.round
    /\ get_except(fpu).ret = env.observed.except
    /\ test_except(fpu, FE_ALL_EXCEPT).ret = env.observed.test

C18_Witness ==
  /\ ncalls = 4
  /\ call.name = "set_env"
  /\ call.envp = "e"
  /\ env.dirty
  /\ env.observed.round = FE_DOWNWARD
  /\ env.observed.test = FE_INVALID + FE_OVERFLOW + FE_INEXACT
  /\ env.observed.except = FE_INVALID + FE_DIVBYZERO
  /\ Observed(fpu) = env.observed

ClaimedOrder(excepts) ==
  LET order == <<FE_INVALID, FE_DIVBYZERO, FE_OVERFLOW, FE_UNDERFLOW, FE_INEXACT>>
                 \o (IF FE_DENORM_defined THEN <<FE_DENORM>> ELSE <<>>)
      wanted == SelectSeq(order, LAMBDA m : Test(excepts, m))
  IN  [i \in 1 .. Len(wanted) |-> get_status_value_for_except(wanted[i])]

IsPrefix(a, b) == Len(a) <= Len(b) /\ a = SubSeq(b, 1, Len(a))

(***************************************************************************)
(* C19: raise_except(excepts) raises the requested exceptions one at a     *)
(* time in the order INVALID, DIV_BY_ZERO, OVERFLOW, UNDERFLOW, INEXACT,   *)
(* then DENORMAL when <fenv.h> has it.  Each raise starts from the x87     *)
(* status word and MXCSR as they are then, after the fwait of the previous *)
(* raise and the handler it delivered, and changes nothing but that one    *)
(* flag in both.  So a flag the handler cleared stays clear until the call *)
(* raises that very flag, no flag is set that was neither set on entry nor *)
(* requested, and the call returns 0 when every requested exception has    *)
(* been raised.                                                            *)
(***************************************************************************)
C19_RaiseOneAtATime ==
  [][/\ (raising'.raised # raising.raised /\ raising.active) =>
          LET f == raising'.raised[Len(raising'.raised)]
          IN  /\ raising.stage = "ready"
              /\ raising'.raised = Append(raising.raised, f)
              /\ IsPrefix(raising'.raised, ClaimedOrder(call.arg))
              /\ fpu'.status_word = BitOr(fpu.status_word, f)
              /\ fpu'.mxcsr = BitOr(fpu.mxcsr, f)
              /\ fpu'.control_word = fpu.control_word
              /\ fpu'.rest = fpu.rest
     /\ raising.active =>
          /\ BitAnd(fpu'.status_word, raising'.cleared) = 0
          /\ BitAndNot(Bits(fpu'.status_word, 0, 6),
                       BitOr(raising.entry.status_word,
                             get_status_value_for_except(call.arg))) = 0
          /\ BitAndNot(Bits(fpu'.mxcsr, 0, 6),
                       BitOr(raising.entry.mxcsr,
                             get_status_value_for_except(call.arg))) = 0
     /\ (raising.active /\ ~raising'.active) =>
          /\ raising'.raised = ClaimedOrder(call.arg)
          /\ call'.ret = 0
          /\ fpu' = fpu]_vars

C19_Witness ==
  /\ call.name = "raise_except"
  /\ call.arg = FE_ALL_EXCEPT
  /\ call.ret = 0
  /\ ~raising.active
  /\ hdr = "glibc"
  /\ raising.raised = <<INVALID_F, DIV_BY_ZERO_F, OVERFLOW_F, UNDERFLOW_F,
                        INEXACT_F, DENORMAL_F>>
  /\ raising.cleared = INVALID_F
  /\ raising.entry.status_word = 0
  /\ fpu.status_word = 62
  /\ Bits(fpu.mxcsr, 0, 6) = 63

====
